---- MODULE Spec2Model ----
(***************************************************************************)
(* A model of icclim's Threshold (src/icclim/models/threshold.py): the     *)
(* constructor that classifies the value it is given, the unit property    *)
(* and get_metadata.  Python objects are records with a fixed set of       *)
(* fields; strings built by f-strings are sequences of tokens.             *)
(***************************************************************************)
EXTENDS Integers, Sequences, FiniteSets, TLC

VARIABLES
    pc,                    \* "new" before __init__, "built" after it returned, "failed" after it raised
    args,                  \* the arguments the caller gave to __init__
    heap,                  \* the labeled arrays that exist, by object identity
    calls,                 \* the collaborator calls __init__ made, in order
    err,                   \* the exception raised by the last operation, or NoError
    value,                 \* Threshold.value
    operator,              \* Threshold.operator
    is_doy_per_threshold,  \* Threshold.is_doy_per_threshold
    additional_metadata,   \* Threshold.additional_metadata
    assigned,              \* the names of the attributes the instance has
    ret,                   \* what the last get_metadata call returned
    ncalls,                \* how many get_metadata calls were made
    nsets,                 \* how many times the caller assigned to unit
    last                   \* the operation that ran last

vars == <<pc, args, heap, calls, err, value, operator, is_doy_per_threshold,
          additional_metadata, assigned, ret, ncalls, nsets, last>>

-----------------------------------------------------------------------------
(* Bounds of the model *)

MaxCalls == 3       \* get_metadata calls per threshold
MaxSets == 1        \* assignments to unit per threshold
MaxSize == 11       \* elements of the largest labeled array

(* Program constants *)

ListLimit == 10     \* get_metadata lists the values of arrays smaller than this
DefaultWindow == 5  \* the window argument's default

-----------------------------------------------------------------------------
(* Python values *)

None == "None"                  \* Python's None, where a string is expected
NoAttr == "NoAttr"              \* attrs has no "units" key
Unset == "Unset"                \* an attribute __init__ has not assigned yet
DOY_PERCENTILE_UNIT == "doy_per"
PERIOD_PERCENTILE_UNIT == "period_per"

NoError == "NoError"
InvalidIcclimArgumentError == "InvalidIcclimArgumentError"
CouldNotBeBuilt == "NotImplementedError: Threshold could not be built."
MustBeDataArray == "NotImplementedError: Threshold::value must be a DataArray."
AttributeError == "AttributeError"
TypeError == "TypeError"
ValueError == "ValueError"
UnitConversionError == "convert_units_to raised"

(* A token of a string: a word, or a numeral given by its digits. *)
Word(w) == [s |-> w, d |-> <<>>]
Numeral(ds) == [s |-> "", d |-> ds]
IsNumeral(tok) == tok.d # <<>>

RECURSIVE DigitsValue(_)
DigitsValue(ds) ==
    IF ds = <<>> THEN 0
    ELSE 10 * DigitsValue(SubSeq(ds, 1, Len(ds) - 1)) + ds[Len(ds)]

(* A labeled array: xarray.DataArray or xclim's PercentileDataArray. *)
Array(cls, ndim, data, units, percentiles, bds, window) ==
    [cls |-> cls, ndim |-> ndim, data |-> data, units |-> units,
     percentiles |-> percentiles, bds |-> bds, window |-> window]
NoArray == Array("none", 0, <<>>, NoAttr, <<>>, None, 0)
Size(arr) == Len(arr.data)

ObjIds == {"arg", "fresh"}   \* the caller's array; an array made during the call

(* Threshold.value: unassigned, a reference to an array, or a functools.partial. *)
UnsetValue == [t |-> Unset, id |-> "", fn |-> "", per_val |-> 0, window |-> 0]
Ref(id) == [t |-> "ref", id |-> id, fn |-> "", per_val |-> 0, window |-> 0]
Partial(fn, per_val, window) ==
    [t |-> "partial", id |-> "", fn |-> fn, per_val |-> per_val, window |-> window]
IsCallable(v) == v.t = "partial"

(* The value argument of __init__. *)
ArgNone == [t |-> "None", n |-> 0, s |-> <<>>, tok |-> Word("")]
ArgNumber(n) == [t |-> "number", n |-> n, s |-> <<>>, tok |-> Word("")]
ArgSequence(s) == [t |-> "sequence", n |-> 0, s |-> s, tok |-> Word("")]
ArgString(tok) == [t |-> "str", n |-> 0, s |-> <<>>, tok |-> tok]
ArgDataset == [t |-> "Dataset", n |-> 0, s |-> <<>>, tok |-> Word("")]
ArgDataArray == [t |-> "DataArray", n |-> 0, s |-> <<>>, tok |-> Word("")]

(* The query argument of __init__: None, an Operator, or a str of tokens. *)
QueryNone == [t |-> "None", op |-> "", toks |-> <<>>]
QueryOperator(op) == [t |-> "Operator", op |-> op, toks |-> <<>>]
QueryString(toks) == [t |-> "str", op |-> "", toks |-> toks]

-----------------------------------------------------------------------------
(* The operator registry: canonical operators and the aliases they answer to. *)

REACH == "REACH"
Operators == {"GREATER", "GREATER_OR_EQUAL", "LESS", "LESS_OR_EQUAL", "EQUAL", REACH}

OperatorAliases(op) ==
    CASE op = "GREATER" -> {">", "GT"}
      [] op = "GREATER_OR_EQUAL" -> {">=", "GE"}
      [] op = "LESS" -> {"<", "LT"}
      [] op = "LESS_OR_EQUAL" -> {"<=", "LE"}
      [] op = "EQUAL" -> {"==", "EQ"}
      [] op = REACH -> {"REACH"}

Upper(w) ==
    CASE w = "gt" -> "GT"
      [] w = "ge" -> "GE"
      [] w = "lt" -> "LT"
      [] w = "le" -> "LE"
      [] w = "eq" -> "EQ"
      [] w = "reach" -> "REACH"
      [] OTHER -> w

OperatorStandardName(op) ==
    CASE op = "GREATER" -> "gt"
      [] op = "GREATER_OR_EQUAL" -> "ge"
      [] op = "LESS" -> "lt"
      [] op = "LESS_OR_EQUAL" -> "le"
      [] op = "EQUAL" -> "eq"
      [] OTHER -> "reach"

OperatorLongName(op) ==
    CASE op = "GREATER" -> "greater than"
      [] op = "GREATER_OR_EQUAL" -> "greater or equal to"
      [] op = "LESS" -> "less than"
      [] op = "LESS_OR_EQUAL" -> "less or equal to"
      [] op = "EQUAL" -> "equal to"
      [] OTHER -> "reach"

(* OperatorRegistry.lookup(query, no_error=True): the operator itself, the
   operator a one-word string names (whatever its case), or None. *)
lookup(query) ==
    IF query.t = "Operator" THEN query.op
    ELSE IF query.t = "str" /\ Len(query.toks) = 1
            /\ \E op \in Operators : Upper(query.toks[1].s) \in OperatorAliases(op)
         THEN CHOOSE op \in Operators : Upper(query.toks[1].s) \in OperatorAliases(op)
         ELSE None

-----------------------------------------------------------------------------
(* Input parsing collaborators *)

ExistingPaths == {"thresh.nc"}

is_dataset_path(v) == v.t = "str" /\ v.tok.s \in ExistingPaths

is_number_sequence(v) == v.t = "sequence"

(* read_string_threshold(query): "<operator> <value>[ <unit>]" split into
   (operator, unit, value); it raises when the text holds no number. *)
read_string_threshold(query) ==
    IF Len(query.toks) \in {2, 3} /\ IsNumeral(query.toks[2])
    THEN [err |-> NoError,
          operator |-> QueryString(<<query.toks[1]>>),
          unit |-> IF Len(query.toks) = 3 THEN query.toks[3].s ELSE None,
          value |-> ArgNumber(DigitsValue(query.toks[2].d))]
    ELSE [err |-> InvalidIcclimArgumentError,
          operator |-> QueryNone, unit |-> None, value |-> ArgNone]

(* The variable a dataset holds under the name "thresh". *)
DatasetVariable == Array("DataArray", 1, <<12, 30>>, "degC", <<>>, None, 0)

(* float(value) *)
float(v, arr) ==
    CASE v.t = "number" -> [err |-> NoError, n |-> v.n]
      [] v.t = "str" -> IF IsNumeral(v.tok)
                        THEN [err |-> NoError, n |-> DigitsValue(v.tok.d)]
                        ELSE [err |-> ValueError, n |-> 0]
      [] v.t = "DataArray" -> IF Size(arr) = 1
                              THEN [err |-> NoError, n |-> arr.data[1]]
                              ELSE [err |-> TypeError, n |-> 0]
      [] OTHER -> [err |-> TypeError, n |-> 0]

(* xclim's convert_units_to(source, target): a new array in the target unit.
   What the library does with a target that is no physical unit is left
   open: it raises, or it hands back the data as they are. *)
PhysicalUnits == {"degC", "K"}

ConvertValue(x, from, to) ==
    IF from = to THEN x
    ELSE IF from = "degC" THEN x + 273 ELSE x - 273

convert_units_to(source, target) ==
    IF target \in PhysicalUnits /\ source.units \in PhysicalUnits
    THEN {[err |-> NoError,
           arr |-> [source EXCEPT
                      !.data = [i \in 1..Len(source.data) |->
                                  ConvertValue(source.data[i], source.units, target)],
                      !.units = target]]}
    ELSE {[err |-> UnitConversionError, arr |-> NoArray],
          [err |-> NoError, arr |-> source]}

-----------------------------------------------------------------------------
(* Threshold.unit *)

(* The getter: None while the value is callable, else the array's units. *)
unit_getter(v, h) ==
    IF IsCallable(v) THEN None ELSE h[v.id].units

(* The setter, as the set of its outcomes [err, value, heap]: nothing on a
   callable; a unit-bearing array is replaced by its conversion, and the
   array the value then names is labeled with the unit. *)
unit_setter(v, h, unit) ==
    IF IsCallable(v)
    THEN {[err |-> NoError, value |-> v, heap |-> h]}
    ELSE IF h[v.id].units \notin {NoAttr, None}
         THEN {IF conv.err # NoError
               THEN [err |-> conv.err, value |-> v, heap |-> h]
               ELSE [err |-> NoError, value |-> Ref("fresh"),
                     heap |-> [h EXCEPT !["fresh"] = [conv.arr EXCEPT !.units = unit]]]
               : conv \in convert_units_to(h[v.id], unit)}
         ELSE {[err |-> NoError, value |-> v,
                heap |-> [h EXCEPT ![v.id].units = unit]]}

-----------------------------------------------------------------------------
(* Threshold.__init__ *)

(* Line 88 testing only isinstance(query, str).  C9 must not survive this
   change. *)
ParseQueryWheneverString(a) ==
    IF a.query.t = "str"
    THEN read_string_threshold(a.query)
    ELSE [err |-> NoError, operator |-> a.query, unit |-> a.unit, value |-> a.value]

(* Lines 88-91: the query is parsed when it is a str and neither a value nor
   a unit came with it; otherwise the query is the operator. *)
ParseQuery(a) ==
    IF a.query.t = "str" /\ a.value.t = "None" /\ a.unit = None
    THEN read_string_threshold(a.query)
    ELSE [err |-> NoError, operator |-> a.query, unit |-> a.unit, value |-> a.value]

Classified(e, cs, val, fresh, doy) ==
    [err |-> e, calls |-> cs, val |-> val, fresh |-> fresh, is_doy |-> doy]

(* Lines 92-101: a dataset source.  A path is opened first, then the variable
   name is checked, then the variable is read. *)
FromDataset(v, threshold_var_name) ==
    LET opened == IF v.t = "Dataset" THEN <<>> ELSE <<"read_dataset">>
    IN  IF threshold_var_name = None
        THEN Classified(InvalidIcclimArgumentError,
                        opened \o <<"_check_threshold_var_name">>,
                        UnsetValue, NoArray, FALSE)
        ELSE Classified(NoError,
                        opened \o <<"_check_threshold_var_name",
                                    "read_threshold_DataArray">>,
                        Ref("fresh"), DatasetVariable, FALSE)

(* Lines 102-107: a sequence of numbers becomes a 1-d array. *)
FromSequence(v) ==
    Classified(NoError, <<>>, Ref("fresh"),
               Array("DataArray", 1, v.s, NoAttr, <<>>, None, 0), FALSE)

(* DoyPercentile with line 118 left out: the flag keeps its initial False.
   C2 must not survive this change. *)
DoyPercentileFlagNotSet(v, arr) ==
    LET f == float(v, arr)
    IN  IF f.err # NoError
        THEN Classified(f.err, <<>>, UnsetValue, NoArray, FALSE)
        ELSE Classified(NoError, <<>>,
                        Partial("build_doy_per", f.n, DefaultWindow), NoArray, FALSE)

(* Lines 108-118: the day-of-year percentile builder, deferred. *)
DoyPercentile(v, arr) ==
    LET f == float(v, arr)
    IN  IF f.err # NoError
        THEN Classified(f.err, <<>>, UnsetValue, NoArray, FALSE)
        ELSE Classified(NoError, <<>>,
                        Partial("build_doy_per", f.n, DefaultWindow), NoArray, TRUE)

(* Lines 119-127: the period percentile builder, deferred. *)
PeriodPercentile(v, arr) ==
    LET f == float(v, arr)
    IN  IF f.err # NoError
        THEN Classified(f.err, <<>>, UnsetValue, NoArray, FALSE)
        ELSE Classified(NoError, <<>>,
                        Partial("build_period_per", f.n, 0), NoArray, FALSE)

(* Lines 128-131: a single number becomes a 0-d array. *)
FromNumber(v) ==
    Classified(NoError, <<>>, Ref("fresh"),
               Array("DataArray", 0, <<v.n>>, NoAttr, <<>>, None, 0), FALSE)

(* Lines 132-134: a labeled array is taken as it is. *)
PassThrough == Classified(NoError, <<>>, Ref("arg"), NoArray, FALSE)

(* The last branch taking the value as if it were an array instead of
   raising.  C10 must not survive this change. *)
UnrecognizedTakenAsArray == Classified(NoError, <<>>, Ref("arg"), NoArray, FALSE)

(* Lines 135-136: anything else raises, before any attribute is assigned. *)
Unrecognized == Classified(CouldNotBeBuilt, <<>>, UnsetValue, NoArray, FALSE)

(* Lines 92-136: the if/elif chain that turns the value argument into
   Threshold.value.  arr is the caller's array when the value is one. *)
Classify(v, unit, threshold_var_name, arr) ==
    IF is_dataset_path(v) \/ v.t = "Dataset" THEN FromDataset(v, threshold_var_name)
    ELSE IF is_number_sequence(v) THEN FromSequence(v)
    ELSE IF unit = DOY_PERCENTILE_UNIT THEN DoyPercentile(v, arr)
    ELSE IF unit = PERIOD_PERCENTILE_UNIT THEN PeriodPercentile(v, arr)
    ELSE IF v.t = "number" THEN FromNumber(v)
    ELSE IF v.t = "DataArray" THEN PassThrough
    ELSE Unrecognized

(* Line 139 without its "or OperatorRegistry.REACH".  C7 must not survive
   this change. *)
ResolveOperatorWithoutFallback(query) == lookup(query)

(* Lines 138-140: the looked-up operator, or REACH when the lookup gives None. *)
ResolveOperator(query) ==
    IF lookup(query) # None THEN lookup(query) ELSE REACH

-----------------------------------------------------------------------------
(* Threshold.get_metadata *)

(* The pieces of a formatted string. *)
Str(x) == [s |-> x, n |-> 0, l |-> <<>>]
Num(n) == [s |-> "{}", n |-> n, l |-> <<>>]               \* a number, as str() prints it
Fixed3(n) == [s |-> "{:.3f}", n |-> n, l |-> <<>>]        \* np.format_float_positional(n, 3)
Values(l) == [s |-> "{values}", n |-> 0, l |-> l]         \* an array's values
ThList(l) == [s |-> "{th list}", n |-> 0, l |-> l]        \* the list of "<x>th" strings

Range(f) == {f[i] : i \in DOMAIN f}
Minimum(data) == CHOOSE x \in Range(data) : \A y \in Range(data) : x <= y
Maximum(data) == CHOOSE x \in Range(data) : \A y \in Range(data) : x >= y

(* value.values[()]: the number of a 0-d array, else the array's values. *)
Item(arr) == IF arr.ndim = 0 THEN Num(arr.data[1]) ELSE Values(arr.data)

RECURSIVE Join(_)
Join(notes) ==
    IF notes = <<>> THEN <<>>
    ELSE IF Len(notes) = 1 THEN notes[1]
    ELSE notes[1] \o <<Str(", ")>> \o Join(Tail(notes))

NoReturn == [standard_name |-> <<>>, long_name |-> <<>>,
             has_additional_metadata |-> FALSE, additional_metadata |-> <<>>]

Names(standard_name, long_name) ==
    [standard_name |-> standard_name, long_name |-> long_name,
     has_additional_metadata |-> FALSE, additional_metadata |-> <<>>]

DoyNote(arr, units) ==
    <<Str("day of year percentiles were computed on the "), Str(arr.bds),
      Str(" period, with a "), Num(arr.window), Str(" "), Str(units),
      Str(" window for each day of year")>>

PeriodNote(arr) ==
    <<Str("period percentiles were computed on the "), Str(arr.bds), Str(" period")>>

(* Line 197 with <= for <.  C8 must not survive this change. *)
DisplayValueListsTen(arr, unit) ==
    IF Size(arr) <= ListLimit
    THEN <<Values(arr.data), Str(" "), Str(unit)>>
    ELSE <<Str("per grid cell values between "), Fixed3(Minimum(arr.data)),
           Str(" "), Str(unit), Str(" and "), Fixed3(Maximum(arr.data)),
           Str(" "), Str(unit)>>

(* Lines 196-206: how a plain array's values are displayed. *)
DisplayValue(arr, unit) ==
    IF Size(arr) < ListLimit
    THEN <<Values(arr.data), Str(" "), Str(unit)>>
    ELSE <<Str("per grid cell values between "), Fixed3(Minimum(arr.data)),
           Str(" "), Str(unit), Str(" and "), Fixed3(Maximum(arr.data)),
           Str(" "), Str(unit)>>

(* Lines 154-215: the names, and the note appended to additional_metadata,
   by the shape of the value.  A callable has no size attribute. *)
MetadataNames(v, h, op, doy, src_freq_units) ==
    IF IsCallable(v)
    THEN [err |-> AttributeError, res |-> NoReturn, note |-> <<>>]
    ELSE LET arr == h[v.id]
             unit == unit_getter(v, h)
             std == Str(OperatorStandardName(op))
             long == Str(OperatorLongName(op))
         IN
         IF Size(arr) = 1
         THEN [err |-> NoError,
               res |-> Names(<<std, Str("_"), Item(arr), Str("_"), Str(unit)>>,
                             <<long, Str(" "), Item(arr), Str(" "), Str(unit)>>),
               note |-> <<>>]
         ELSE IF arr.cls = "PercentileDataArray"
         THEN LET one == Len(arr.percentiles) = 1
                  p == arr.percentiles
              IN  IF doy
                  THEN [err |-> NoError,
                        res |-> Names(
                            IF one THEN <<std, Str("_"), Num(p[1]), Str("th_doy_percentile")>>
                                   ELSE <<std, Str("_"), Str("_doy_percentiles")>>,
                            IF one THEN <<long, Str(" "), Num(p[1]),
                                          Str("th day of year percentile")>>
                                   ELSE <<long, Str(" "), ThList(p)>>),
                        note |-> <<DoyNote(arr, src_freq_units)>>]
                  ELSE [err |-> NoError,
                        res |-> Names(
                            IF one THEN <<std, Str("_"), Num(p[1]), Str("th_period_percentile")>>
                                   ELSE <<std, Str("_"), Str("_period_percentiles")>>,
                            IF one THEN <<long, Str(" "), Num(p[1]),
                                          Str("th period percentile")>>
                                   ELSE <<long, Str(" "), ThList(p),
                                          Str(" period percentiles")>>),
                        note |-> <<PeriodNote(arr)>>]
         ELSE IF arr.cls = "DataArray"
         THEN [err |-> NoError,
               res |-> Names(<<std, Str("_thresholds")>>,
                             <<long, Str(" ")>> \o DisplayValue(arr, unit)),
               note |-> <<>>]
         ELSE [err |-> MustBeDataArray, res |-> NoReturn, note |-> <<>>]

(* Lines 216-219: the note list after the call, and the mapping returned. *)
get_metadata(v, h, op, doy, meta, src_freq_units) ==
    LET m == MetadataNames(v, h, op, doy, src_freq_units)
        notes == meta \o m.note
    IN  IF m.err # NoError
        THEN [err |-> m.err, res |-> NoReturn, additional_metadata |-> meta]
        ELSE [err |-> NoError,
              res |-> IF Len(notes) > 0
                      THEN [m.res EXCEPT
                              !.has_additional_metadata = TRUE,
                              !.additional_metadata =
                                  <<Str("(")>> \o Join(notes) \o <<Str(")")>>]
                      ELSE m.res,
              additional_metadata |-> notes]

-----------------------------------------------------------------------------
(* The inputs the model draws from *)

Data(n) == [i \in 1..n |-> ((i * 7) % 5) + 1]

Sizes == {1, 2, ListLimit - 1, ListLimit, MaxSize}

ArgArrays ==
    {Array("DataArray", IF n = 1 THEN nd ELSE 1, Data(n), u, <<>>, None, 0) :
        n \in Sizes, u \in {NoAttr, "degC"}, nd \in {0, 1}}
    \cup
    {Array("PercentileDataArray", 1, Data(n), "degC", p, "1971-2000", w) :
        n \in {1, 2, MaxSize}, p \in {<<90>>, <<90, 95>>}, w \in {0, DefaultWindow}}

Queries ==
    {QueryNone,
     QueryOperator("GREATER"),
     QueryString(<<Word(">=")>>),
     QueryString(<<Word("lt")>>),
     QueryString(<<Word("bogus")>>),
     QueryString(<<Word(">"), Numeral(<<2, 5>>), Word("degC")>>),
     QueryString(<<Word("le"), Numeral(<<7>>), Word("K")>>),
     QueryString(<<Word("=="), Numeral(<<3, 0>>)>>),
     QueryString(<<Word("bogus"), Numeral(<<4>>), Word("degC")>>),
     QueryString(<<Word("<"), Numeral(<<9, 8>>), Word(DOY_PERCENTILE_UNIT)>>),
     QueryString(<<Word(">"), Word("degC")>>)}

ValueArgs ==
    {ArgNone, ArgNumber(25), ArgSequence(<<2, 3, 4>>), ArgSequence(Data(ListLimit)),
     ArgString(Word("thresh.nc")), ArgString(Word("abc")), ArgString(Numeral(<<9, 0>>)),
     ArgDataset, ArgDataArray}

UnitArgs == {None, "degC", "K", DOY_PERCENTILE_UNIT, PERIOD_PERCENTILE_UNIT}

VarNameArgs == {None, "thresh"}

FrequencyUnits == {"days", "months"}

CtorArgs ==
    [query : Queries, value : ValueArgs, unit : UnitArgs,
     threshold_var_name : VarNameArgs]

-----------------------------------------------------------------------------
(* The state machine *)

Init ==
    /\ pc = "new"
    /\ args \in CtorArgs
    /\ heap \in {[id \in ObjIds |-> IF id = "arg" THEN arr ELSE NoArray] :
                    arr \in IF args.value.t = "DataArray" THEN ArgArrays ELSE {NoArray}}
    /\ calls = <<>>
    /\ err = NoError
    /\ value = UnsetValue
    /\ operator = Unset
    /\ is_doy_per_threshold = FALSE
    /\ additional_metadata = <<>>
    /\ assigned = {}
    /\ ret = NoReturn
    /\ ncalls = 0
    /\ nsets = 0
    /\ last = "none"

(* Threshold(query, value, unit, threshold_var_name): all of __init__.  The
   attributes are assigned in the order of lines 137-150; the unit setter of
   line 142 may raise between them. *)
Construct ==
    /\ pc = "new"
    /\ LET p == ParseQuery(args)
           c == Classify(p.value, p.unit, args.threshold_var_name, heap["arg"])
       IN  IF p.err # NoError \/ c.err # NoError
           THEN /\ pc' = "failed"
                /\ err' = IF p.err # NoError THEN p.err ELSE c.err
                /\ calls' = IF p.err # NoError THEN <<>> ELSE c.calls
                /\ UNCHANGED <<heap, value, operator, is_doy_per_threshold,
                               additional_metadata, assigned>>
           ELSE \E u \in unit_setter(c.val, [heap EXCEPT !["fresh"] = c.fresh], p.unit) :
                /\ calls' = c.calls
                /\ is_doy_per_threshold' = c.is_doy
                /\ operator' = ResolveOperator(p.operator)
                /\ value' = u.value
                /\ heap' = u.heap
                /\ err' = u.err
                /\ additional_metadata' = <<>>
                /\ IF u.err # NoError
                   THEN /\ pc' = "failed"
                        /\ assigned' = {"is_doy_per_threshold", "operator", "value"}
                   ELSE /\ pc' = "built"
                        /\ assigned' = {"is_doy_per_threshold", "operator", "value",
                                        "additional_metadata", "threshold_var_name",
                                        "climatology_bounds", "window", "only_leap_years",
                                        "interpolation", "base_period_time_range",
                                        "threshold_min_value"}
    /\ last' = "__init__"
    /\ UNCHANGED <<args, ret, ncalls, nsets>>

(* get_metadata clearing the day-of-year flag as it returns.  C11 must not
   survive this change. *)
GetMetadataClearingFlag ==
    /\ pc = "built"
    /\ ncalls < MaxCalls
    /\ \E units \in FrequencyUnits :
        LET r == get_metadata(value, heap, operator, is_doy_per_threshold,
                              additional_metadata, units)
        IN  /\ err' = r.err
            /\ ret' = r.res
            /\ additional_metadata' = r.additional_metadata
    /\ is_doy_per_threshold' = FALSE
    /\ ncalls' = ncalls + 1
    /\ last' = "get_metadata"
    /\ UNCHANGED <<pc, args, heap, calls, value, operator, assigned, nsets>>

(* threshold.get_metadata(src_freq) *)
GetMetadata ==
    /\ pc = "built"
    /\ ncalls < MaxCalls
    /\ \E units \in FrequencyUnits :
        LET r == get_metadata(value, heap, operator, is_doy_per_threshold,
                              additional_metadata, units)
        IN  /\ err' = r.err
            /\ ret' = r.res
            /\ additional_metadata' = r.additional_metadata
    /\ ncalls' = ncalls + 1
    /\ last' = "get_metadata"
    /\ UNCHANGED <<pc, args, heap, calls, value, operator, is_doy_per_threshold,
                   assigned, nsets>>

(* The caller binds a deferred percentile threshold to data: the stored
   builder runs and the value becomes the percentile field it returns. *)
Resolve ==
    /\ pc = "built"
    /\ IsCallable(value)
    /\ \E n \in {1, 2, MaxSize} :
        heap' = [heap EXCEPT !["fresh"] =
                    Array("PercentileDataArray", 1, Data(n), "degC",
                          <<value.per_val>>, "1971-2000", value.window)]
    /\ value' = Ref("fresh")
    /\ err' = NoError
    /\ last' = "resolve"
    /\ UNCHANGED <<pc, args, calls, operator, is_doy_per_threshold,
                   additional_metadata, assigned, ret, ncalls, nsets>>

(* threshold.unit = unit, by the caller: the setter of lines 67-72. *)
SetUnit ==
    /\ pc = "built"
    /\ nsets < MaxSets
    /\ \E unit \in UnitArgs :
        \E u \in unit_setter(value, heap, unit) :
            /\ value' = u.value
            /\ heap' = u.heap
            /\ err' = u.err
    /\ nsets' = nsets + 1
    /\ last' = "unit.setter"
    /\ UNCHANGED <<pc, args, calls, operator, is_doy_per_threshold,
                   additional_metadata, assigned, ret, ncalls>>

Next == Construct \/ GetMetadata \/ Resolve

Spec == Init /\ [][Next]_vars

(* The same, with a caller that also assigns to unit. *)
NextWithSetUnit == Construct \/ GetMetadata \/ Resolve \/ SetUnit

SpecWithSetUnit == Init /\ [][NextWithSetUnit]_vars

-----------------------------------------------------------------------------
(* Properties of the constructor *)

DatasetSource(v) == is_dataset_path(v) \/ v.t = "Dataset"
PercentileUnits == {DOY_PERCENTILE_UNIT, PERIOD_PERCENTILE_UNIT}
Constructed == last = "__init__" /\ pc = "built"

(* C1: a construction whose value is a dataset source (a path or an in-memory
   Dataset) and whose threshold_var_name is None fails with
   InvalidIcclimArgumentError, and neither read_dataset nor
   read_threshold_DataArray was called before the error. *)
C1_MissingVarNameFailsBeforeAnyRead ==
    (last = "__init__" /\ DatasetSource(args.value) /\ args.threshold_var_name = None)
    => /\ pc = "failed"
       /\ err = InvalidIcclimArgumentError
       /\ \A i \in DOMAIN calls :
            calls[i] \notin {"read_dataset", "read_threshold_DataArray"}

(* C2, as stated: after every successful construction, whatever the value,
   the day-of-year marker as unit gives a deferred builder with the flag
   true, the period marker gives a deferred builder with the flag false, and
   the flag is false in every other case. *)
C2_PercentileUnitAlwaysDefers ==
    Constructed =>
        LET p == ParseQuery(args)
        IN  /\ p.unit = DOY_PERCENTILE_UNIT => IsCallable(value) /\ is_doy_per_threshold
            /\ p.unit = PERIOD_PERCENTILE_UNIT => IsCallable(value) /\ ~is_doy_per_threshold
            /\ p.unit \notin PercentileUnits => ~is_doy_per_threshold

(* C2, amended: the same, for a value that is neither a dataset source nor a
   sequence of numbers; those two are classified before the unit is looked
   at, and there, as in every other case, the flag is false. *)
C2_PercentileUnitDefers ==
    Constructed =>
        LET p == ParseQuery(args)
            early == DatasetSource(p.value) \/ is_number_sequence(p.value)
        IN  /\ (~early /\ p.unit = DOY_PERCENTILE_UNIT)
                  => IsCallable(value) /\ is_doy_per_threshold
            /\ (~early /\ p.unit = PERIOD_PERCENTILE_UNIT)
                  => IsCallable(value) /\ ~is_doy_per_threshold
            /\ (early \/ p.unit \notin PercentileUnits) => ~is_doy_per_threshold

C2_Witness ==
    /\ Constructed
    /\ args.unit = DOY_PERCENTILE_UNIT
    /\ args.value.t = "number"
    /\ IsCallable(value)
    /\ is_doy_per_threshold

(* C3: a construction from a labeled array that succeeds leaves value naming
   the caller's array, and that array as the caller gave it: same data, same
   attributes, whatever the unit argument. *)
C3_DataArrayPassedThroughUnchanged ==
    [][(pc = "new" /\ pc' = "built" /\ args.value.t = "DataArray")
        => (value' = Ref("arg") /\ heap'["arg"] = heap["arg"])]_vars

(* C7: once the value is classified, the operator attribute is assigned and
   is a registry operator: the one the lookup found, or REACH when the lookup
   found none (an unknown word, a malformed text, None); the construction
   then fails, if at all, in the unit conversion and not on the operator. *)
C7_UnresolvedOperatorIsReach ==
    (last = "__init__" /\ ParseQuery(args).err = NoError
        /\ (pc = "built" \/ "value" \in assigned))
    => LET found == lookup(ParseQuery(args).operator)
       IN  /\ "operator" \in assigned
           /\ operator \in Operators
           /\ operator = (IF found = None THEN REACH ELSE found)
           /\ err \in {NoError, UnitConversionError}

C7_Witness ==
    /\ Constructed
    /\ args.query = QueryString(<<Word("bogus")>>)
    /\ args.value.t = "number"
    /\ lookup(ParseQuery(args).operator) = None
    /\ operator = REACH

(* C9: a query "<op> <number> <unit>" given alone, with a registry operator
   and a physical unit, builds a threshold whose operator is the one <op>
   names, whose unit reads back as <unit> and whose value is the 0-d array
   holding <number>.  A query that comes with a value or a unit is not
   parsed: it is looked up as the operator, and the value is the one given. *)
C9_ScalarQueryRoundTrip ==
    /\ (last = "__init__" /\ args.query.t = "str" /\ Len(args.query.toks) = 3
            /\ IsNumeral(args.query.toks[2])
            /\ args.query.toks[3].s \in PhysicalUnits
            /\ (\E op \in Operators : Upper(args.query.toks[1].s) \in OperatorAliases(op))
            /\ args.value.t = "None" /\ args.unit = None)
       => /\ pc = "built"
          /\ Upper(args.query.toks[1].s) \in OperatorAliases(operator)
          /\ unit_getter(value, heap) = args.query.toks[3].s
          /\ ~IsCallable(value)
          /\ heap[value.id].ndim = 0
          /\ heap[value.id].data = <<DigitsValue(args.query.toks[2].d)>>
    /\ (Constructed /\ ~(args.query.t = "str" /\ args.value.t = "None" /\ args.unit = None))
       => /\ operator = (IF lookup(args.query) = None THEN REACH ELSE lookup(args.query))
          /\ (args.value.t = "number" /\ args.unit \notin PercentileUnits)
                => heap[value.id].data = <<args.value.n>>
          /\ (args.unit \notin PercentileUnits) => unit_getter(value, heap) = args.unit

C9_Witness ==
    /\ Constructed
    /\ args.query = QueryString(<<Word("le"), Numeral(<<7>>), Word("K")>>)
    /\ args.value.t = "None" /\ args.unit = None
    /\ operator = "LESS_OR_EQUAL"
    /\ heap[value.id].data = <<7>>
    /\ unit_getter(value, heap) = "K"

(* C10: a value that is no dataset source, no sequence of numbers, no number
   and no labeled array, with a unit that is no percentile marker, makes the
   constructor raise "Threshold could not be built." before it assigned any
   attribute and before it called any collaborator. *)
C10_UnrecognizedValueRaisesFirst ==
    (last = "__init__" /\ ParseQuery(args).err = NoError
        /\ ~DatasetSource(ParseQuery(args).value)
        /\ ~is_number_sequence(ParseQuery(args).value)
        /\ ParseQuery(args).value.t \notin {"number", "DataArray"}
        /\ ParseQuery(args).unit \notin PercentileUnits)
    => /\ pc = "failed"
       /\ err = CouldNotBeBuilt
       /\ assigned = {}
       /\ value = UnsetValue
       /\ operator = Unset
       /\ calls = <<>>

C10_Witness ==
    /\ last = "__init__"
    /\ args.value = ArgString(Word("abc"))
    /\ args.unit = "degC"
    /\ err = CouldNotBeBuilt
    /\ assigned = {}

-----------------------------------------------------------------------------
(* Properties of get_metadata *)

Contains(seq, tok) == \E i \in DOMAIN seq : seq[i] = tok
Resolved == ~IsCallable(value) /\ value.t = "ref"

(* C4: a get_metadata call that follows a successful get_metadata call on a
   resolved threshold returns the same standard_name and long_name, and
   leaves no more in the additional_metadata list and in the returned
   additional_metadata string than the call before. *)
C4_GetMetadataIdempotent ==
    [][(last = "get_metadata" /\ err = NoError /\ Resolved
            /\ last' = "get_metadata" /\ ncalls' = ncalls + 1)
        => /\ err' = NoError
           /\ ret'.standard_name = ret.standard_name
           /\ ret'.long_name = ret.long_name
           /\ Len(additional_metadata') <= Len(additional_metadata)
           /\ Len(ret'.additional_metadata) <= Len(ret.additional_metadata)]_vars

(* C5: get_metadata on a resolved percentile field of any size names it as a
   percentile: "Nth day of year percentile" (or the list of N's) with a note
   of the climatology bounds and the window in the frequency's units when
   the threshold is a day-of-year one, "Nth period percentile" (or the list)
   with a note of the bounds only when it is not. *)
C5_PercentileFieldNamedAsPercentile ==
    (last = "get_metadata" /\ Resolved /\ heap[value.id].cls = "PercentileDataArray")
    => LET arr == heap[value.id]
           p == arr.percentiles
           kind == IF is_doy_per_threshold THEN Str("th day of year percentile")
                   ELSE Str("th period percentile")
       IN  /\ err = NoError
           /\ IF Len(p) = 1
              THEN Contains(ret.long_name, Num(p[1])) /\ Contains(ret.long_name, kind)
              ELSE Contains(ret.long_name, ThList(p))
           /\ Len(additional_metadata) > 0
           /\ ret.has_additional_metadata
           /\ IF is_doy_per_threshold
              THEN \E u \in FrequencyUnits :
                      additional_metadata[Len(additional_metadata)] = DoyNote(arr, u)
              ELSE additional_metadata[Len(additional_metadata)] = PeriodNote(arr)

(* C6: get_metadata on a threshold whose value is still the deferred builder
   raises the NotImplementedError of lines 212-215, returns nothing and
   appends nothing. *)
C6_DeferredValueNotImplemented ==
    (last = "get_metadata" /\ IsCallable(value))
    => /\ err = MustBeDataArray
       /\ ret = NoReturn
       /\ additional_metadata = <<>>

(* C8: get_metadata on a plain array of more than one element: from
   ListLimit elements on, long_name gives the least and the greatest value,
   each with the unit, and not the values; below, it gives the values and
   then the unit; no note is added either way. *)
C8_ManyValuesShownAsRange ==
    (last = "get_metadata" /\ Resolved /\ heap[value.id].cls = "DataArray"
        /\ Size(heap[value.id]) > 1)
    => LET arr == heap[value.id]
           u == Str(arr.units)
           name == ret.long_name
       IN  /\ err = NoError
           /\ name[1] = Str(OperatorLongName(operator))
           /\ Size(arr) >= ListLimit =>
                /\ \E lo, hi \in Range(arr.data) :
                      /\ \A x \in Range(arr.data) : lo <= x /\ x <= hi
                      /\ SubSeq(name, 3, Len(name)) =
                            <<Str("per grid cell values between "), Fixed3(lo), Str(" "), u,
                              Str(" and "), Fixed3(hi), Str(" "), u>>
                /\ ~Contains(name, Values(arr.data))
           /\ Size(arr) < ListLimit =>
                SubSeq(name, 3, Len(name)) = <<Values(arr.data), Str(" "), u>>
           /\ additional_metadata = <<>>
           /\ ~ret.has_additional_metadata

C8_Witness ==
    /\ last = "get_metadata"
    /\ Resolved
    /\ heap[value.id].cls = "DataArray"
    /\ Size(heap[value.id]) = ListLimit
    /\ err = NoError
    /\ Contains(ret.long_name, Str("per grid cell values between "))

-----------------------------------------------------------------------------
(* Properties of a threshold's life *)

(* C11: additional_metadata is empty when the constructor returns and is
   changed by get_metadata calls only; a get_metadata call leaves value (the
   array it names included), operator, unit and is_doy_per_threshold as they
   were, and is_doy_per_threshold stays what the constructor made it. *)
C11_GetMetadataChangesOnlyNotes ==
    [][/\ (pc = "new" /\ pc' = "built") => additional_metadata' = <<>>
       /\ (additional_metadata' # additional_metadata)
             => (last' = "get_metadata" /\ ncalls' = ncalls + 1)
       /\ (last' = "get_metadata" /\ ncalls' = ncalls + 1)
             => /\ value' = value
                /\ heap' = heap
                /\ operator' = operator
                /\ unit_getter(value', heap') = unit_getter(value, heap)
                /\ is_doy_per_threshold' = is_doy_per_threshold
       /\ (pc' = "built")
             => is_doy_per_threshold' =
                    Classify(ParseQuery(args).value, ParseQuery(args).unit,
                             args.threshold_var_name, heap'["arg"]).is_doy]_vars

C11_Witness ==
    /\ last = "get_metadata"
    /\ ncalls >= 2
    /\ Resolved
    /\ is_doy_per_threshold
    /\ Len(additional_metadata) >= 2

(* C12: while the value is the deferred builder, unit reads None and an
   assignment to unit changes neither the value nor any array; once the
   value is an array (scalar, sequence, grid or resolved percentile), unit
   reads a unit that is defined, whatever unit the constructor was given. *)
C12_UnitDefinedUnlessDeferred ==
    [][/\ (pc' = "built" /\ IsCallable(value'))
             => unit_getter(value', heap') = None
       /\ (last' = "unit.setter" /\ nsets' = nsets + 1 /\ IsCallable(value))
             => (value' = value /\ heap' = heap /\ err' = NoError)
       /\ (pc' = "built" /\ ~IsCallable(value'))
             => unit_getter(value', heap') \notin {None, NoAttr}]_vars

====
